---- MODULE Spec2Model ----
(***************************************************************************)
(* Per-frame simulation engine of the Takyan game: initializeGameState,   *)
(* updateGameState and the physics, collision, input and animation        *)
(* helpers it calls.                                                       *)
(*                                                                         *)
(* Numbers.  The program computes on IEEE doubles; the model computes on  *)
(* integers in fixed point:                                                *)
(*   - lengths and velocities in 1/100 pixel (per 60 Hz frame),            *)
(*   - multipliers in percent (100 = 1.0),                                 *)
(*   - times and timers in milliseconds (deltaTime = 100 is 0.1 s),        *)
(*   - angles in 1/100 radian (2*pi is 628).                               *)
(* A product that is not a whole number of units is truncated toward 0.   *)
(* A null player number (winner, lastScoringPlayer, scoring side) is 0, a  *)
(* null lastEmotion the string "null", undefined the record Undefined.     *)
(***************************************************************************)
EXTENDS Integers, Sequences, FiniteSets, TLC

VARIABLES
    state,            \* the GameState the host holds (gameStateRef.current)
    input,            \* the InputState the key handlers maintain
    deltaTime,        \* deltaTime argument of the latest updateGameState call (ms)
    particlesToEmit,  \* particle events returned by the latest call
    customMultipliers,\* the override the host passes with every call, or Undefined
    frames,           \* number of updateGameState calls made so far
    keyPresses,       \* number of keydown events delivered so far
    hostDeltaTime,    \* deltaTime computed by the host's latest frame callback (ms)
    frameError        \* "none", or the exception that ended the frame loop

vars == <<state, input, deltaTime, particlesToEmit, customMultipliers, frames,
          keyPresses, hostDeltaTime, frameError>>

----------------------------------------------------------------------------
(* Bounds of the exploration *)

MaxFrames == 4          \* updateGameState calls per behaviour
MaxKeysHeld == 2        \* keys held down at the same time
MaxKeyPresses == 2      \* keydown events per behaviour
MaxDropTime == 1        \* Date.now() readings are drawn from 1..MaxDropTime

(* The GameConfig the match is played with: a small court, so that the      *)
(* players, the centre line, the ground and a finished match are all a few  *)
(* frames away from the serve.  The physical constants are DEFAULT_CONFIG's *)
CanvasWidth == 18000    \* config.canvasWidth = 180 px
GroundLevel == 13000    \* config.groundLevel = 130 px
WinningScore == 2       \* config.winningScore
DashDurationCfg == 100  \* config.dashDuration (ms)
DashCooldownTime == 200 \* config.dashCooldownTime (ms)

Gravity == 50           \* config.gravity = 0.5
PlayerSpeed == 500      \* config.playerSpeed = 5
DashSpeed == 1200       \* config.dashSpeed = 12
KickPower == 1500       \* config.kickPower = 15
TakyanRadius == 2500    \* config.takyanRadius = 25

config ==
    [ canvasWidth      |-> CanvasWidth,
      gravity          |-> Gravity,
      playerSpeed      |-> PlayerSpeed,
      dashSpeed        |-> DashSpeed,
      dashDuration     |-> DashDurationCfg,
      dashCooldownTime |-> DashCooldownTime,
      kickPower        |-> KickPower,
      groundLevel      |-> GroundLevel,
      winningScore     |-> WinningScore,
      enableParticles  |-> TRUE,
      takyanRadius     |-> TakyanRadius ]

(* deltaTime values a call is made with, in ms: the ends and the middle of  *)
(* the interval [0, 0.1 s]                                                  *)
DeltaTimes == {0, 50, 100}

(* Math.random() in resetTakyan: (Math.random() - 0.5) * 6 lies in [-3, 3)  *)
PopUpVelocitiesX == {-300, 299}

Null == 0               \* null, where a player number 1 | 2 is expected
Undefined == [undefined |-> TRUE]

----------------------------------------------------------------------------
(* Arithmetic helpers *)

Max(a, b) == IF a >= b THEN a ELSE b
Min(a, b) == IF a <= b THEN a ELSE b
Abs(a) == IF a >= 0 THEN a ELSE -a

\* a / b truncated toward zero (b > 0)
TruncDiv(a, b) == IF a >= 0 THEN a \div b ELSE -((-a) \div b)

\* deltaTime * 60 in 1/100 frame, from deltaTime in ms
FrameScale(dt) == dt * 6

\* value * factor where factor is in 1/100
Scaled(value, factor) == TruncDiv(value * factor, 100)

TwoPi == 628            \* Math.PI * 2 in 1/100 radian
RotationStep == 30      \* 0.3 rad of leg swing per moving frame
EmotionDuration == 800  \* emotionTimer set on a point (ms)
PlayerWidth == 5000     \* width: 50
PlayerHeight == 10000   \* height: 100
KickAnimationDuration == 150
ServeY == 10000         \* resetTakyan: y: 100
PopUpVelocityY == -1000 \* resetTakyan: -10
AirResistanceFactor == 99  \* applyAirResistance: factor = 0.99
KickHorizontal == 300   \* applyKick: horizontalDirection * 3

----------------------------------------------------------------------------
(* Static tables of types.ts *)

CHARACTER_STATS(id) ==
    CASE id = 1 -> [speedMultiplier |-> 100, powerMultiplier |-> 100]
      [] id = 2 -> [speedMultiplier |-> 130, powerMultiplier |-> 80]
      [] id = 3 -> [speedMultiplier |-> 80,  powerMultiplier |-> 130]

AI_DIFFICULTIES(d) ==
    CASE d = "easy"   -> [ballSpeedMultiplier |-> 40,  gravityMultiplier |-> 50,
                          playerSpeedMultiplier |-> 80]
      [] d = "medium" -> [ballSpeedMultiplier |-> 100, gravityMultiplier |-> 100,
                          playerSpeedMultiplier |-> 100]
      [] d = "hard"   -> [ballSpeedMultiplier |-> 150, gravityMultiplier |-> 130,
                          playerSpeedMultiplier |-> 120]

----------------------------------------------------------------------------
(* physics.ts *)

updateTakyanPhysics(takyan, cfg, dtScale, gravityMultiplier) ==
    LET newVelocityY == takyan.velocityY
                          + Scaled(Scaled(cfg.gravity, gravityMultiplier), dtScale)
        newY == takyan.y + Scaled(newVelocityY, dtScale)
        newX == takyan.x + Scaled(takyan.velocityX, dtScale)
    IN  [takyan EXCEPT !.x = newX, !.y = newY, !.velocityY = newVelocityY]

\* faulty variant: the kick is added to the velocity the projectile has
applyKickAdditive(takyan, cfg, horizontalDirection, ballSpeedMultiplier) ==
    [takyan EXCEPT
        !.velocityY = takyan.velocityY - Scaled(cfg.kickPower, ballSpeedMultiplier),
        !.velocityX = takyan.velocityX
                        + Scaled(horizontalDirection * KickHorizontal,
                                 ballSpeedMultiplier)]

applyKick(takyan, cfg, horizontalDirection, ballSpeedMultiplier) ==
    [takyan EXCEPT
        !.velocityY = -Scaled(cfg.kickPower, ballSpeedMultiplier),
        !.velocityX = Scaled(horizontalDirection * KickHorizontal, ballSpeedMultiplier)]

\* randomX stands for (Math.random() - 0.5) * 6
\* faulty variant: every respawn is a neutral serve
resetTakyanWithoutPopUp(cfg, addPopUpVelocity, randomX) ==
    [ x         |-> cfg.canvasWidth \div 2,
      y         |-> ServeY,
      velocityX |-> 0,
      velocityY |-> 0,
      radius    |-> cfg.takyanRadius,
      rotation  |-> 0 ]

resetTakyan(cfg, addPopUpVelocity, randomX) ==
    [ x         |-> cfg.canvasWidth \div 2,
      y         |-> ServeY,
      velocityX |-> IF addPopUpVelocity THEN randomX ELSE 0,
      velocityY |-> IF addPopUpVelocity THEN PopUpVelocityY ELSE 0,
      radius    |-> cfg.takyanRadius,
      rotation  |-> 0 ]

\* faulty variant: no damping of the horizontal velocity
applyNoAirResistance(takyan) == takyan

applyAirResistance(takyan) ==
    [takyan EXCEPT !.velocityX = Scaled(takyan.velocityX, AirResistanceFactor)]

----------------------------------------------------------------------------
(* collision.ts *)

checkPlayerCollision(takyan, player) ==
    LET closestX == Max(player.x, Min(takyan.x, player.x + player.width))
        closestY == Max(player.y, Min(takyan.y, player.y + player.height))
        distanceX == takyan.x - closestX
        distanceY == takyan.y - closestY
        distanceSquared == distanceX * distanceX + distanceY * distanceY
    IN  distanceSquared < takyan.radius * takyan.radius

checkGroundCollision(takyan, cfg) ==
    takyan.y + takyan.radius >= cfg.groundLevel

\* faulty variant: the centre line belongs to player 1's side
determineScoringSideCentreLeft(takyan, cfg) ==
    IF ~checkGroundCollision(takyan, cfg) THEN Null
    ELSE IF takyan.x <= cfg.canvasWidth \div 2 THEN 1
    ELSE 2

determineScoringSide(takyan, cfg) ==
    IF ~checkGroundCollision(takyan, cfg) THEN Null
    ELSE LET centerX == cfg.canvasWidth \div 2
         IN  IF takyan.x < centerX THEN 1 ELSE 2

\* the side is taken from the position handed in, not from the player's identity
keepPlayerInBounds(player, cfg, isPracticeMode) ==
    LET centerX == cfg.canvasWidth \div 2
        newX ==
          IF isPracticeMode
          THEN Max(0, Min(player.x, cfg.canvasWidth - player.width))
          ELSE IF player.x < centerX
               THEN Max(0, Min(player.x, centerX - player.width))
               ELSE Max(centerX, Min(player.x, cfg.canvasWidth - player.width))
    IN  [player EXCEPT !.x = newX]

\* boundary bounce: the projectile is kept inside the canvas and its
\* horizontal velocity reflected when its extent passes a side edge
checkBallBoundaryCollision(takyan, cfg) ==
    IF takyan.x - takyan.radius < 0
    THEN [takyan EXCEPT !.x = takyan.radius, !.velocityX = -takyan.velocityX]
    ELSE IF takyan.x + takyan.radius > cfg.canvasWidth
         THEN [takyan EXCEPT !.x = cfg.canvasWidth - takyan.radius,
                             !.velocityX = -takyan.velocityX]
         ELSE takyan

----------------------------------------------------------------------------
(* input.ts *)

Keys == {"player1Left", "player1Right", "player1Kick", "player1Dash",
         "player2Left", "player2Right", "player2Kick", "player2Dash"}

createInputState == [k \in Keys |-> FALSE]

handleKeyDown(key, inputState) == [inputState EXCEPT ![key] = TRUE]

handleKeyUp(key, inputState) == [inputState EXCEPT ![key] = FALSE]

applyPlayerInput(x, speed, moveLeft, moveRight) ==
    LET afterLeft == IF moveLeft THEN x - speed ELSE x
    IN  IF moveRight THEN afterLeft + speed ELSE afterLeft

----------------------------------------------------------------------------
(* gameLoop.ts: initializeGameState *)

NewPlayer(characterId, x, cfg) ==
    [ characterId           |-> characterId,
      x                     |-> x,
      y                     |-> cfg.groundLevel - PlayerHeight,
      score                 |-> 0,
      width                 |-> PlayerWidth,
      height                |-> PlayerHeight,
      rotation              |-> 0,
      isKicking             |-> FALSE,
      kickAnimationFrame    |-> 0,
      kickAnimationDuration |-> KickAnimationDuration,
      lastX                 |-> x,
      facingLeft            |-> FALSE,
      emotionTimer          |-> 0,
      lastEmotion           |-> "null",
      animationTime         |-> 0,
      isDashing             |-> FALSE,
      dashCooldown          |-> 0,
      dashDuration          |-> 0 ]

initializeGameState(cfg, gameMode, difficulty, player1Character, player2Character, randomX) ==
    LET player1X == IF gameMode = "practice"
                    THEN cfg.canvasWidth \div 2 - PlayerWidth \div 2
                    ELSE cfg.canvasWidth \div 4 - PlayerWidth \div 2
        player2X == (cfg.canvasWidth \div 4) * 3 - PlayerWidth \div 2
    IN  [ player1           |-> NewPlayer(player1Character, player1X, cfg),
          player2           |-> NewPlayer(player2Character, player2X, cfg),
          takyan            |-> resetTakyan(cfg, gameMode = "practice", randomX),
          winner            |-> Null,
          isPaused          |-> FALSE,
          lastScoringPlayer |-> Null,
          gameMode          |-> gameMode,
          combo             |-> 0,
          rallyCount        |-> 0,
          practiceState     |-> IF gameMode = "practice"
                                THEN [ currentStreak |-> 0,
                                       personalBest  |-> 0,
                                       totalKicks    |-> 0,
                                       lastDropTime  |-> 0,
                                       difficulty    |-> difficulty ]
                                ELSE Undefined ]

----------------------------------------------------------------------------
(* gameLoop.ts: updateGameState, in the order of its statements *)

\* the short-circuit at the top of the step
\* faulty variant: a paused match is stepped
IsFrozenIgnoringPause(st) == st.winner # Null

\* faulty variant: a finished match is stepped
IsFrozenIgnoringWinner(st) == st.isPaused

IsFrozen(st) == st.winner # Null \/ st.isPaused

\* multipliers of ball speed, gravity and player speed for this step
\* the keys of AI_DIFFICULTIES and of CHARACTER_STATS
AIDifficulty == {"easy", "medium", "hard"}
CharacterIds == {1, 2, 3}

\* an unfrozen step ends in a TypeError when it reads a field of a table
\* entry that does not exist: difficultyConfig.ballSpeedMultiplier in a
\* practice match without custom override whose difficulty is no key of
\* AI_DIFFICULTIES, or player1CharStats.speedMultiplier (player2CharStats in
\* versus mode) for a characterId that is no key of CHARACTER_STATS
StepThrows(st, custom) ==
    /\ ~(st.winner # Null \/ st.isPaused)
    /\ \/ /\ ~(custom # Undefined /\ custom.isCustom)
          /\ st.gameMode = "practice"
          /\ st.practiceState # Undefined
          /\ st.practiceState.difficulty \notin AIDifficulty
       \/ st.player1.characterId \notin CharacterIds
       \/ /\ st.gameMode = "versus"
          /\ st.player2.characterId \notin CharacterIds

\* faulty variant: the custom override is never consulted
ResolveMultipliersIgnoringCustom(st, custom) ==
    LET difficulty == IF st.gameMode = "practice" /\ st.practiceState # Undefined
                      THEN st.practiceState.difficulty ELSE "medium"
        difficultyConfig == AI_DIFFICULTIES(difficulty)
        practice == st.gameMode = "practice"
    IN  [ ballSpeed   |-> IF practice THEN difficultyConfig.ballSpeedMultiplier
                          ELSE 100,
          gravity     |-> IF practice THEN difficultyConfig.gravityMultiplier
                          ELSE 100,
          playerSpeed |-> IF practice THEN difficultyConfig.playerSpeedMultiplier
                          ELSE 100 ]

ResolveMultipliers(st, custom) ==
    IF custom # Undefined /\ custom.isCustom
    THEN [ ballSpeed   |-> custom.ballSpeed,
           gravity     |-> custom.gravity,
           playerSpeed |-> custom.playerSpeed ]
    ELSE LET difficulty == IF st.gameMode = "practice" /\ st.practiceState # Undefined
                           THEN st.practiceState.difficulty ELSE "medium"
             difficultyConfig == AI_DIFFICULTIES(difficulty)
             practice == st.gameMode = "practice"
         IN  [ ballSpeed   |-> IF practice THEN difficultyConfig.ballSpeedMultiplier
                               ELSE 100,
               gravity     |-> IF practice THEN difficultyConfig.gravityMultiplier
                               ELSE 100,
               playerSpeed |-> IF practice THEN difficultyConfig.playerSpeedMultiplier
                               ELSE 100 ]

\* the guard of a dash request
\* faulty variant: a dash in progress does not gate the dash
DashAcceptedWhileDashing(player, dashInput) ==
    dashInput /\ player.dashCooldown <= 0

\* faulty variant: the cooldown does not gate the dash
DashAcceptedDuringCooldown(player, dashInput) ==
    dashInput /\ ~player.isDashing

DashAccepted(player, dashInput) ==
    dashInput /\ player.dashCooldown <= 0 /\ ~player.isDashing

\* faulty variant: the cooldown starts together with the dash
HandleDashStartingCooldown(player, dashInput, cfg) ==
    IF DashAccepted(player, dashInput)
    THEN [player EXCEPT !.isDashing = TRUE,
                        !.dashDuration = cfg.dashDuration,
                        !.dashCooldown = cfg.dashCooldownTime]
    ELSE player

HandleDash(player, dashInput, cfg) ==
    IF DashAccepted(player, dashInput)
    THEN [player EXCEPT !.isDashing = TRUE,
                        !.dashDuration = cfg.dashDuration,
                        !.dashCooldown = 0]
    ELSE player

\* speed, movement, bounds, facing and leg rotation of one player;
\* old is the player of the state handed in, player the one after HandleDash
MovePlayer(old, player, moveLeft, moveRight, cfg, dt, playerSpeedMultiplier, isPracticeMode) ==
    LET charStats == CHARACTER_STATS(player.characterId)
        base == IF player.isDashing THEN cfg.dashSpeed ELSE cfg.playerSpeed
        speed == Scaled(Scaled(base, playerSpeedMultiplier), charStats.speedMultiplier)
        newX == applyPlayerInput(old.x, Scaled(speed, FrameScale(dt)),
                                 moveLeft, moveRight)
        bounded == keepPlayerInBounds([player EXCEPT !.x = newX], cfg, isPracticeMode)
    IN  [bounded EXCEPT
            !.facingLeft = IF moveLeft THEN TRUE
                           ELSE IF moveRight THEN FALSE ELSE @,
            !.rotation = IF moveLeft \/ moveRight
                         THEN (old.rotation + RotationStep) % TwoPi ELSE @]

\* which player's kick is applied in this step: 1, 2 or Null
\* faulty variant: player 2 is tested first
KickingPlayerSecondFirst(st, in) ==
    IF st.gameMode = "versus" /\ in.player2Kick
       /\ checkPlayerCollision(st.takyan, st.player2) THEN 2
    ELSE IF in.player1Kick /\ checkPlayerCollision(st.takyan, st.player1) THEN 1
    ELSE Null

\* faulty variant: player 2 kicks in practice mode too
KickingPlayerAnyMode(st, in) ==
    IF in.player1Kick /\ checkPlayerCollision(st.takyan, st.player1) THEN 1
    ELSE IF in.player2Kick /\ checkPlayerCollision(st.takyan, st.player2) THEN 2
    ELSE Null

KickingPlayer(st, in) ==
    IF in.player1Kick /\ checkPlayerCollision(st.takyan, st.player1) THEN 1
    ELSE IF st.gameMode = "versus" /\ in.player2Kick
            /\ checkPlayerCollision(st.takyan, st.player2) THEN 2
    ELSE Null

KickDirection(moveLeft, moveRight) ==
    IF moveLeft THEN -1 ELSE IF moveRight THEN 1 ELSE 0

TriggerKick(player) ==
    [player EXCEPT !.isKicking = TRUE, !.kickAnimationFrame = 0]

\* faulty variant: a kick leaves the personal best alone
PracticeKickForgettingBest(practiceState) ==
    [practiceState EXCEPT
        !.currentStreak = practiceState.currentStreak + 1,
        !.totalKicks = practiceState.totalKicks + 1]

PracticeKick(practiceState) ==
    [practiceState EXCEPT
        !.currentStreak = practiceState.currentStreak + 1,
        !.totalKicks = practiceState.totalKicks + 1,
        !.personalBest = Max(practiceState.personalBest,
                             practiceState.currentStreak + 1)]

\* faulty variant: a drop also forgets the personal best
PracticeDropClearingBest(practiceState, now) ==
    [practiceState EXCEPT !.currentStreak = 0, !.personalBest = 0,
                          !.lastDropTime = now]

PracticeDrop(practiceState, now) ==
    [practiceState EXCEPT !.currentStreak = 0, !.lastDropTime = now]

\* integration, air resistance, wall bounce and spin of the projectile
MoveTakyan(old, takyan, cfg, dt, gravityMultiplier) ==
    LET moved == checkBallBoundaryCollision(
                    applyAirResistance(
                        updateTakyanPhysics(takyan, cfg, FrameScale(dt),
                                            gravityMultiplier)), cfg)
    IN  [moved EXCEPT
            !.rotation = (old.rotation + TruncDiv(Abs(moved.velocityX), 10)) % TwoPi]

\* the projectile after this step's kick, if any: the kicking player's
\* direction keys and character power, scaled by the ball-speed multiplier
KickedTakyan(st, in, cfg, ballSpeedMultiplier) ==
    LET kickingPlayer == KickingPlayer(st, in)
        p1Power == Scaled(ballSpeedMultiplier,
                          CHARACTER_STATS(st.player1.characterId).powerMultiplier)
        p2Power == Scaled(ballSpeedMultiplier,
                          CHARACTER_STATS(st.player2.characterId).powerMultiplier)
    IN  IF kickingPlayer = 1
        THEN applyKick(st.takyan, cfg,
                       KickDirection(in.player1Left, in.player1Right), p1Power)
        ELSE IF kickingPlayer = 2
        THEN applyKick(st.takyan, cfg,
                       KickDirection(in.player2Left, in.player2Right), p2Power)
        ELSE st.takyan

\* the projectile the ground check of this step looks at: kicked, then moved
IntegratedTakyan(st, in, cfg, dt, custom) ==
    LET mult == ResolveMultipliers(st, custom)
    IN  MoveTakyan(st.takyan, KickedTakyan(st, in, cfg, mult.ballSpeed), cfg, dt,
                   mult.gravity)

\* the player credited with the point when the projectile lands on scoringSide
\* faulty variant: the point goes to the side the projectile landed on
ScoringPlayerSameSide(scoringSide) == scoringSide

ScoringPlayer(scoringSide) == IF scoringSide = 1 THEN 2 ELSE 1

\* faulty variant: both players are given the point
AwardPointToBoth(player, scored) ==
    [player EXCEPT !.score = @ + 1,
                   !.emotionTimer = EmotionDuration,
                   !.lastEmotion = IF scored THEN "Happy" ELSE "Angry"]

\* faulty variant: an emotion still running is left as it is
AwardPointKeepingEmotion(player, scored) ==
    [player EXCEPT !.score = IF scored THEN @ + 1 ELSE @,
                   !.emotionTimer = IF @ > 0 THEN @ ELSE EmotionDuration,
                   !.lastEmotion = IF player.emotionTimer > 0 THEN @
                                   ELSE IF scored THEN "Happy" ELSE "Angry"]

AwardPoint(player, scored) ==
    [player EXCEPT !.score = IF scored THEN @ + 1 ELSE @,
                   !.emotionTimer = EmotionDuration,
                   !.lastEmotion = IF scored THEN "Happy" ELSE "Angry"]

\* winner after a point, from the two scores
\* faulty variant: the winning score has to be exceeded
CheckWinnerAbove(score1, score2, cfg) ==
    IF score1 > cfg.winningScore THEN 1
    ELSE IF score2 > cfg.winningScore THEN 2
    ELSE Null

CheckWinner(score1, score2, cfg) ==
    IF score1 >= cfg.winningScore THEN 1
    ELSE IF score2 >= cfg.winningScore THEN 2
    ELSE Null

\* faulty variant: the kick animation ends only past its duration
UpdateKickAnimationPastDuration(player, dt) ==
    IF player.isKicking
    THEN LET frame == player.kickAnimationFrame + dt
         IN  IF frame > player.kickAnimationDuration
             THEN [player EXCEPT !.isKicking = FALSE, !.kickAnimationFrame = 0]
             ELSE [player EXCEPT !.kickAnimationFrame = frame]
    ELSE player

UpdateKickAnimation(player, dt) ==
    IF player.isKicking
    THEN LET frame == player.kickAnimationFrame + dt
         IN  IF frame >= player.kickAnimationDuration
             THEN [player EXCEPT !.isKicking = FALSE, !.kickAnimationFrame = 0]
             ELSE [player EXCEPT !.kickAnimationFrame = frame]
    ELSE player

\* faulty variant: the emotion is cleared as soon as its timer runs
UpdateEmotionTimerClearingEarly(player, dt) ==
    IF player.emotionTimer > 0
    THEN [player EXCEPT !.emotionTimer = Max(0, player.emotionTimer - dt),
                        !.lastEmotion = "null"]
    ELSE player

\* faulty variant: the emotion outlives its timer
UpdateEmotionTimerKeepingEmotion(player, dt) ==
    IF player.emotionTimer > 0
    THEN [player EXCEPT !.emotionTimer = Max(0, player.emotionTimer - dt)]
    ELSE player

UpdateEmotionTimer(player, dt) ==
    IF player.emotionTimer > 0
    THEN LET timer == Max(0, player.emotionTimer - dt)
         IN  [player EXCEPT !.emotionTimer = timer,
                            !.lastEmotion = IF timer = 0 THEN "null" ELSE @]
    ELSE player

\* faulty variant: the end of a dash starts no cooldown
UpdateDashTimersWithoutCooldown(player, dt, cfg) ==
    LET afterDash ==
          IF player.isDashing
          THEN LET newDashDuration == Max(0, player.dashDuration - dt)
               IN  [player EXCEPT !.dashDuration = newDashDuration,
                                  !.isDashing = newDashDuration > 0]
          ELSE player
    IN  IF afterDash.dashCooldown > 0
        THEN [afterDash EXCEPT !.dashCooldown = Max(0, afterDash.dashCooldown - dt)]
        ELSE afterDash

\* faulty variant: the cooldown is not clamped at 0
UpdateDashTimersUnclamped(player, dt, cfg) ==
    LET afterDash ==
          IF player.isDashing
          THEN LET newDashDuration == Max(0, player.dashDuration - dt)
                   dashEnding == newDashDuration = 0
               IN  [player EXCEPT
                       !.dashDuration = newDashDuration,
                       !.isDashing = newDashDuration > 0,
                       !.dashCooldown = IF dashEnding THEN cfg.dashCooldownTime
                                        ELSE @]
          ELSE player
    IN  IF afterDash.dashCooldown > 0
        THEN [afterDash EXCEPT !.dashCooldown = afterDash.dashCooldown - dt]
        ELSE afterDash

UpdateDashTimers(player, dt, cfg) ==
    LET afterDash ==
          IF player.isDashing
          THEN LET newDashDuration == Max(0, player.dashDuration - dt)
                   dashEnding == newDashDuration = 0
               IN  [player EXCEPT
                       !.dashDuration = newDashDuration,
                       !.isDashing = newDashDuration > 0,
                       !.dashCooldown = IF dashEnding THEN cfg.dashCooldownTime
                                        ELSE @]
          ELSE player
    IN  IF afterDash.dashCooldown > 0
        THEN [afterDash EXCEPT !.dashCooldown = Max(0, afterDash.dashCooldown - dt)]
        ELSE afterDash

\* one emitParticles call: the batch it creates, by its type, origin and colour
emitParticles(type, x, y, color) == [type |-> type, x |-> x, y |-> y, color |-> color]

----------------------------------------------------------------------------
\* updateGameState(state, input, config, deltaTime, customMultipliers):
\* the result record {newState, particlesToEmit}.  randomX and now stand for
\* the Math.random() and Date.now() readings the step makes on ground contact
\* faulty variant: only a practice drop serves the projectile again
RespawnTakyanInPracticeOnly(takyan, grounded, practice, newWinner, cfg, randomX) ==
    IF grounded /\ practice THEN resetTakyan(cfg, TRUE, randomX)
    ELSE takyan

\* the projectile after the ground check: served again after a practice drop
\* and after a versus point that leaves the match open
RespawnTakyan(takyan, grounded, practice, newWinner, cfg, randomX) ==
    IF grounded /\ practice THEN resetTakyan(cfg, TRUE, randomX)
    ELSE IF grounded /\ newWinner = Null THEN resetTakyan(cfg, FALSE, randomX)
    ELSE takyan

\* faulty variant: a kick counts twice
CountKickTwice(counter, kicked) == IF kicked THEN counter + 2 ELSE counter

\* rallyCount += 1 and combo += 1 of a successful kick
CountKick(counter, kicked) == IF kicked THEN counter + 1 ELSE counter

\* faulty variant: lastX is the position the step ends with
RecordLastXAfterMove(player, previousX) == [player EXCEPT !.lastX = player.x]

RecordLastX(player, previousX) == [player EXCEPT !.lastX = previousX]

updateGameState(st, in, cfg, dt, custom, randomX, now) ==
    IF IsFrozen(st) THEN [newState |-> st, particlesToEmit |-> <<>>]
    ELSE
    LET mult == ResolveMultipliers(st, custom)
        practice == st.gameMode = "practice"
        \* dash and movement
        p1Moved == MovePlayer(st.player1,
                              HandleDash(st.player1, in.player1Dash, cfg),
                              in.player1Left, in.player1Right, cfg, dt,
                              mult.playerSpeed, practice)
        p2Moved == IF st.gameMode = "versus"
                   THEN MovePlayer(st.player2,
                                   HandleDash(st.player2, in.player2Dash, cfg),
                                   in.player2Left, in.player2Right, cfg, dt,
                                   mult.playerSpeed, FALSE)
                   ELSE st.player2
        \* kicks
        kickingPlayer == KickingPlayer(st, in)
        takyanKicked == KickedTakyan(st, in, cfg, mult.ballSpeed)
        kicked == kickingPlayer # Null
        rallyKicked == CountKick(st.rallyCount, kicked)
        comboKicked == CountKick(st.combo, kicked)
        p1Kicked == IF kickingPlayer = 1 THEN TriggerKick(p1Moved) ELSE p1Moved
        p2Kicked == IF kickingPlayer = 2 THEN TriggerKick(p2Moved) ELSE p2Moved
        practiceKicked ==
            IF kickingPlayer = 1 /\ practice /\ st.practiceState # Undefined
            THEN PracticeKick(st.practiceState) ELSE st.practiceState
        kickParticles ==
            IF kicked /\ cfg.enableParticles
            THEN <<emitParticles("kick", st.takyan.x, st.takyan.y,
                                 IF kickingPlayer = 1 THEN "player1" ELSE "player2")>>
            ELSE <<>>
        \* projectile
        takyanMoved == IntegratedTakyan(st, in, cfg, dt, custom)
        \* ground contact and scoring
        scoringSide == determineScoringSide(takyanMoved, cfg)
        grounded == scoringSide # Null
        scorer == ScoringPlayer(scoringSide)
        groundParticles ==
            IF grounded /\ cfg.enableParticles
            THEN <<emitParticles("ground", takyanMoved.x, cfg.groundLevel, "default")>>
            ELSE <<>>
        point == grounded /\ ~practice
        p1Scored == IF point THEN AwardPoint(p1Kicked, scorer = 1) ELSE p1Kicked
        p2Scored == IF point THEN AwardPoint(p2Kicked, scorer = 2) ELSE p2Kicked
        scoreParticles ==
            IF point /\ cfg.enableParticles
            THEN LET p == IF scorer = 1 THEN p1Scored ELSE p2Scored
                 IN  <<emitParticles("score", p.x + p.width \div 2, p.y, "default")>>
            ELSE <<>>
        newWinner == IF point THEN CheckWinner(p1Scored.score, p2Scored.score, cfg)
                     ELSE st.winner
        takyanFinal == RespawnTakyan(takyanMoved, grounded, practice, newWinner,
                                     cfg, randomX)
        practiceFinal ==
            IF grounded /\ practice /\ practiceKicked # Undefined
            THEN PracticeDrop(practiceKicked, now) ELSE practiceKicked
        \* timers
        p1Timed == UpdateDashTimers(
                       UpdateEmotionTimer(UpdateKickAnimation(p1Scored, dt), dt),
                       dt, cfg)
        p2Timed == UpdateDashTimers(
                       UpdateEmotionTimer(UpdateKickAnimation(p2Scored, dt), dt),
                       dt, cfg)
        \* lastX
        p1Final == RecordLastX(p1Timed, st.player1.x)
        p2Final == IF st.gameMode = "versus"
                   THEN RecordLastX(p2Timed, st.player2.x) ELSE p2Timed
    IN  [ newState |->
            [ player1           |-> p1Final,
              player2           |-> p2Final,
              takyan            |-> takyanFinal,
              winner            |-> newWinner,
              isPaused          |-> st.isPaused,
              lastScoringPlayer |-> IF point THEN scorer ELSE st.lastScoringPlayer,
              gameMode          |-> st.gameMode,
              combo             |-> IF grounded THEN 0 ELSE comboKicked,
              rallyCount        |-> IF grounded THEN 0 ELSE rallyKicked,
              practiceState     |-> practiceFinal ],
          particlesToEmit |-> kickParticles \o groundParticles \o scoreParticles ]

----------------------------------------------------------------------------
(* updateGameState as the host's frame callback calls it: with four        *)
(* arguments, updateGameState(state, input, config, customMultipliersRef.  *)
(* current).  The fourth parameter of updateGameState is deltaTime, so the *)
(* override object is bound to deltaTime and customMultipliers is          *)
(* undefined.  Every product with deltaTime is then NaN; a comparison with *)
(* NaN is false and Math.max / Math.min with a NaN argument give NaN.      *)

\* the number NaN: no length, velocity or timer of a match has this value
NaN == -99999999

\* player movement with a NaN speed: applyPlayerInput leaves x alone unless a
\* direction key is held, and keepPlayerInBounds returns NaN for a NaN x
MovePlayerNaN(old, player, moveLeft, moveRight, cfg, isPracticeMode) ==
    LET newX == IF moveLeft \/ moveRight THEN NaN ELSE old.x
        bounded == IF newX = NaN THEN [player EXCEPT !.x = NaN]
                   ELSE keepPlayerInBounds([player EXCEPT !.x = newX], cfg,
                                           isPracticeMode)
    IN  [bounded EXCEPT
            !.facingLeft = IF moveLeft THEN TRUE
                           ELSE IF moveRight THEN FALSE ELSE @,
            !.rotation = IF moveLeft \/ moveRight
                         THEN (old.rotation + RotationStep) % TwoPi ELSE @]

\* checkPlayerCollision when a coordinate may be NaN: the distance is NaN
\* and NaN < radius * radius is false
checkPlayerCollisionNaN(takyan, player) ==
    IF takyan.x = NaN \/ takyan.y = NaN \/ player.x = NaN THEN FALSE
    ELSE checkPlayerCollision(takyan, player)

\* the timers of a player decayed by NaN milliseconds: a running kick
\* animation never reaches its duration, a running emotion never reaches 0,
\* a dash ends at once (NaN > 0 is false) without starting the cooldown
UpdateTimersNaN(player) ==
    LET kick == IF player.isKicking
                THEN [player EXCEPT !.kickAnimationFrame = NaN] ELSE player
        emotion == IF kick.emotionTimer > 0 /\ kick.emotionTimer # NaN
                   THEN [kick EXCEPT !.emotionTimer = NaN] ELSE kick
        dash == IF emotion.isDashing
                THEN [emotion EXCEPT !.dashDuration = NaN, !.isDashing = FALSE]
                ELSE emotion
    IN  IF dash.dashCooldown > 0 /\ dash.dashCooldown # NaN
        THEN [dash EXCEPT !.dashCooldown = NaN] ELSE dash

updateGameStateHost(st, in, cfg, fourth) ==
    IF IsFrozen(st) THEN [newState |-> st, particlesToEmit |-> <<>>]
    ELSE
    LET mult == ResolveMultipliers(st, Undefined)
        practice == st.gameMode = "practice"
        p1Moved == MovePlayerNaN(st.player1,
                                 HandleDash(st.player1, in.player1Dash, cfg),
                                 in.player1Left, in.player1Right, cfg, practice)
        p2Moved == IF st.gameMode = "versus"
                   THEN MovePlayerNaN(st.player2,
                                      HandleDash(st.player2, in.player2Dash, cfg),
                                      in.player2Left, in.player2Right, cfg, FALSE)
                   ELSE st.player2
        kickingPlayer ==
            IF in.player1Kick /\ checkPlayerCollisionNaN(st.takyan, st.player1)
            THEN 1
            ELSE IF st.gameMode = "versus" /\ in.player2Kick
                    /\ checkPlayerCollisionNaN(st.takyan, st.player2) THEN 2
            ELSE Null
        kicked == kickingPlayer # Null
        kicker == IF kickingPlayer = 1 THEN st.player1 ELSE st.player2
        takyanKicked ==
            IF kicked
            THEN applyKick(st.takyan, cfg,
                           IF kickingPlayer = 1
                           THEN KickDirection(in.player1Left, in.player1Right)
                           ELSE KickDirection(in.player2Left, in.player2Right),
                           Scaled(mult.ballSpeed,
                                  CHARACTER_STATS(kicker.characterId).powerMultiplier))
            ELSE st.takyan
        \* updateTakyanPhysics with deltaTime * 60 = NaN, applyAirResistance;
        \* neither the wall test nor the ground test holds of a NaN position
        damped == applyAirResistance(takyanKicked)
        takyanMoved ==
            [damped EXCEPT
                !.x = NaN, !.y = NaN, !.velocityY = NaN,
                !.rotation = (st.takyan.rotation
                                + TruncDiv(Abs(damped.velocityX), 10)) % TwoPi]
        p1Kicked == IF kickingPlayer = 1 THEN TriggerKick(p1Moved) ELSE p1Moved
        p2Kicked == IF kickingPlayer = 2 THEN TriggerKick(p2Moved) ELSE p2Moved
        p1Timed == UpdateTimersNaN(p1Kicked)
        p2Timed == UpdateTimersNaN(p2Kicked)
    IN  [ newState |->
            [ player1           |-> [p1Timed EXCEPT !.lastX = st.player1.x],
              player2           |-> IF st.gameMode = "versus"
                                    THEN [p2Timed EXCEPT !.lastX = st.player2.x]
                                    ELSE p2Timed,
              takyan            |-> takyanMoved,
              winner            |-> st.winner,
              isPaused          |-> st.isPaused,
              lastScoringPlayer |-> st.lastScoringPlayer,
              gameMode          |-> st.gameMode,
              combo             |-> IF kicked THEN st.combo + 1 ELSE st.combo,
              rallyCount        |-> IF kicked THEN st.rallyCount + 1
                                    ELSE st.rallyCount,
              practiceState     |-> IF kickingPlayer = 1 /\ practice
                                       /\ st.practiceState # Undefined
                                    THEN PracticeKick(st.practiceState)
                                    ELSE st.practiceState ],
          particlesToEmit |->
            IF kicked /\ cfg.enableParticles
            THEN <<emitParticles("kick", st.takyan.x, st.takyan.y,
                                 IF kickingPlayer = 1 THEN "player1"
                                 ELSE "player2")>>
            ELSE <<>> ]

\* getPlayerAnimation of gameLoop.ts
\* faulty variant: the dash is tested before the emotion
getPlayerAnimationDashFirst(player) ==
    IF player.isDashing THEN "Dash"
    ELSE IF player.emotionTimer > 0 /\ player.lastEmotion # "null"
    THEN player.lastEmotion
    ELSE IF player.isKicking THEN "Walk_attack"
    ELSE IF Abs(player.x - player.lastX) > 10 THEN "Walk"
    ELSE "Idle2"

getPlayerAnimation(player) ==
    IF player.emotionTimer > 0 /\ player.lastEmotion # "null" THEN player.lastEmotion
    ELSE IF player.isDashing THEN "Dash"
    ELSE IF player.isKicking THEN "Walk_attack"
    ELSE IF Abs(player.x - player.lastX) > 10 THEN "Walk"
    ELSE "Idle2"

----------------------------------------------------------------------------
(* The matches explored: mode, difficulty, characters and the custom        *)
(* multiplier override the host passes with every call                      *)

\* difficulty=custom with the sliders at ball speed 0.3, gravity 1.5,
\* player speed 1.0
CustomSlow == [ballSpeed |-> 30, gravity |-> 150, playerSpeed |-> 100,
               isCustom |-> TRUE]

Setup(gameMode, difficulty, player1Character, player2Character, custom) ==
    [ gameMode |-> gameMode, difficulty |-> difficulty,
      player1Character |-> player1Character,
      player2Character |-> player2Character, customMultipliers |-> custom ]

VersusSetups ==
    { Setup("versus", "medium", 1, 1, Undefined),
      Setup("versus", "medium", 1, 2, CustomSlow) }

PracticeSetups ==
    { Setup("practice", "medium", 1, 1, Undefined),
      Setup("practice", "medium", 2, 1, CustomSlow) }

InitWith(setups) ==
    /\ \E s \in setups, randomX \in PopUpVelocitiesX :
          /\ s.gameMode = "versus" => randomX = 299
          /\ state = initializeGameState(config, s.gameMode, s.difficulty,
                                         s.player1Character, s.player2Character,
                                         randomX)
          /\ customMultipliers = s.customMultipliers
    /\ input = createInputState
    /\ deltaTime = 0
    /\ particlesToEmit = <<>>
    /\ frames = 0
    /\ keyPresses = 0
    /\ hostDeltaTime = 0
    /\ frameError = "none"

Init == InitWith(VersusSetups \cup PracticeSetups)

KeysHeld(inputState) == Cardinality({k \in Keys : inputState[k]})

\* keydown listener: a game key goes down
KeyDown ==
    /\ \E key \in Keys :
          /\ ~input[key]
          /\ KeysHeld(input) < MaxKeysHeld
          /\ input' = handleKeyDown(key, input)
    /\ keyPresses < MaxKeyPresses
    /\ keyPresses' = keyPresses + 1
    /\ UNCHANGED <<state, deltaTime, particlesToEmit, customMultipliers, frames,
                   hostDeltaTime, frameError>>

\* keyup listener
KeyUp ==
    /\ \E key \in Keys :
          /\ input[key]
          /\ input' = handleKeyUp(key, input)
    /\ UNCHANGED <<state, deltaTime, particlesToEmit, customMultipliers, frames,
                   keyPresses, hostDeltaTime, frameError>>

\* keydown listener, Escape: pause and resume while nobody has won
TogglePause ==
    /\ state.winner = Null
    /\ state' = [state EXCEPT !.isPaused = ~state.isPaused]
    /\ keyPresses < MaxKeyPresses
    /\ keyPresses' = keyPresses + 1
    /\ UNCHANGED <<input, deltaTime, particlesToEmit, customMultipliers, frames,
                   hostDeltaTime, frameError>>

\* one call of updateGameState with the input held and a deltaTime in [0, 0.1]
Step ==
    /\ frames < MaxFrames
    /\ frameError = "none"
    /\ \E dt \in DeltaTimes, randomX \in PopUpVelocitiesX, now \in 1..MaxDropTime :
          IF StepThrows(state, customMultipliers)
          THEN /\ frameError' = "TypeError"
               /\ deltaTime' = dt
               /\ UNCHANGED <<state, particlesToEmit>>
          ELSE LET r == updateGameState(state, input, config, dt,
                                        customMultipliers, randomX, now)
               IN  /\ state' = r.newState
                   /\ particlesToEmit' = r.particlesToEmit
                   /\ deltaTime' = dt
                   /\ UNCHANGED frameError
    /\ frames' = frames + 1
    /\ UNCHANGED <<input, customMultipliers, keyPresses, hostDeltaTime>>

Next == KeyDown \/ KeyUp \/ TogglePause \/ Step

Spec == Init /\ [][Next]_vars

\* matches that differ in difficulty and in the custom override: the sliders'
\* values with the override switched off, and with it switched on
CustomOff == [CustomSlow EXCEPT !.isCustom = FALSE]

DifficultySetups ==
    { Setup("practice", "easy", 1, 1, Undefined),
      Setup("practice", "hard", 1, 1, CustomOff),
      Setup("practice", "hard", 1, 1, CustomSlow),
      Setup("versus", "hard", 1, 1, CustomOff) }

InitDifficulty == InitWith(DifficultySetups)
SpecDifficulty == InitDifficulty /\ [][Next]_vars

----------------------------------------------------------------------------
(* The host: GameCanvas's requestAnimationFrame callback *)

\* milliseconds between two frame callbacks: a 60 Hz frame, a slow frame, a
\* frame after the tab was in the background
ElapsedTimes == {16, 50, 250}

\* the cap of the callback's deltaTime: Math.min(..., 0.1)
MaxDeltaTime == 100

\* the override object of a match that is not custom, and the host's matches
HostDefault == [ballSpeed |-> 100, gravity |-> 100, playerSpeed |-> 100,
                isCustom |-> FALSE]

HostSetups ==
    { Setup("versus", "medium", 1, 2, HostDefault),
      Setup("practice", "medium", 1, 1, CustomSlow) }

\* one frame callback: the capped elapsed time is computed, and unless the
\* match is paused updateGameState is called with the four arguments
\* (state, input, config, override); its deltaTime parameter is that override
HostFrame ==
    /\ frames < MaxFrames
    /\ frameError = "none"
    /\ \E elapsed \in ElapsedTimes :
          hostDeltaTime' = Min(elapsed, MaxDeltaTime)
    /\ IF state.isPaused
       THEN UNCHANGED <<state, particlesToEmit, deltaTime, frameError>>
       ELSE IF StepThrows(state, Undefined)
       THEN /\ frameError' = "TypeError"
            /\ deltaTime' = NaN
            /\ UNCHANGED <<state, particlesToEmit>>
       ELSE LET r == updateGameStateHost(state, input, config, customMultipliers)
            IN  /\ state' = r.newState
                /\ particlesToEmit' = r.particlesToEmit
                /\ deltaTime' = NaN
                /\ UNCHANGED frameError
    /\ frames' = frames + 1
    /\ UNCHANGED <<input, customMultipliers, keyPresses>>

NextHost == KeyDown \/ KeyUp \/ TogglePause \/ HostFrame

InitHost == InitWith(HostSetups)
SpecHost == InitHost /\ [][NextHost]_vars

----------------------------------------------------------------------------
(* Matches started from URL parameters that name no character and no       *)
(* difficulty of the game                                                   *)

\* GameCanvas.parseCharacterId
parseCharacterId(param) == IF param \in CharacterIds THEN param ELSE 1

SuppliedSetups ==
    { Setup("practice", "insane", 7, 0, Undefined),
      Setup("versus", "insane", 7, 2, Undefined) }

InitSupplied ==
    InitWith({ [s EXCEPT !.player1Character = parseCharacterId(@),
                         !.player2Character = parseCharacterId(@)] :
               s \in SuppliedSetups })

SpecSupplied == InitSupplied /\ [][Next]_vars

\* versus matches only, and practice matches only
InitVersus == InitWith(VersusSetups)
InitPractice == InitWith(PracticeSetups)
SpecVersus == InitVersus /\ [][Next]_vars
SpecPractice == InitPractice /\ [][Next]_vars

(* A versus rally followed long enough for an emotion to run out: the       *)
(* 800 ms of an emotion are at least eight frames at the host's cap of      *)
(* 100 ms a frame.                                                          *)
MaxRallyFrames == 10

RallyDeltaTimes == {50, 100}

RallySetups == { Setup("versus", "medium", 1, 2, Undefined) }

\* one call of updateGameState in a frame of positive length
RallyFrame(maxFrames) ==
    /\ frames < maxFrames
    /\ frameError = "none"
    /\ ~StepThrows(state, customMultipliers)
    /\ \E dt \in RallyDeltaTimes :
          LET r == updateGameState(state, input, config, dt,
                                   customMultipliers, 299, 1)
          IN  /\ state' = r.newState
              /\ particlesToEmit' = r.particlesToEmit
              /\ deltaTime' = dt
    /\ frames' = frames + 1
    /\ UNCHANGED <<input, customMultipliers, keyPresses, hostDeltaTime,
                   frameError>>

RallyStep == RallyFrame(MaxRallyFrames)

NextRally == KeyDown \/ KeyUp \/ TogglePause \/ RallyStep

InitRally == InitWith(RallySetups)

\* the frame callback requests the next animation frame at its end, so the
\* frame count keeps advancing; RallyStep is the only action that advances it
RallyTick == frames < MaxRallyFrames /\ frames' = frames + 1

SpecRally == InitRally /\ [][NextRally]_vars /\ WF_frames(RallyTick)

(* The serves of a versus match followed until the match is won: with no    *)
(* kick a serve is on the ground after at most two frames.                  *)
MaxServeFrames == 6

ServeStep == RallyFrame(MaxServeFrames)

NextServe == KeyDown \/ KeyUp \/ TogglePause \/ ServeStep

ServeTick == frames < MaxServeFrames /\ frames' = frames + 1

SpecServe == InitRally /\ [][NextServe]_vars /\ WF_frames(ServeTick)

----------------------------------------------------------------------------
(* Properties.  A transition is a call of updateGameState exactly when it   *)
(* counts a frame; the call's arguments are state, input, config, the new   *)
(* deltaTime and customMultipliers, its result the new state and the new    *)
(* particlesToEmit.                                                         *)

StepTaken == frames' = frames + 1

\* an unfrozen call: the step runs past the short-circuit
Unfrozen == StepTaken /\ state.winner = Null /\ ~state.isPaused

\* the projectile this call's ground check looks at
Integrated == IntegratedTakyan(state, input, config, deltaTime', customMultipliers)

GroundContact == checkGroundCollision(Integrated, config)

centerX == config.canvasWidth \div 2

\* C1: a call made while a winner is set or the game is paused returns the
\* state it was given, every field unchanged, and no particle events
C1_FrozenStepReturnsInput ==
    [][(StepTaken /\ (state.winner # Null \/ state.isPaused))
         => (state' = state /\ particlesToEmit' = <<>>)]_vars

\* a call was made after the match was won: the winning call emits ground
\* and score particles, a later one none
C1_Witness ==
    /\ state.winner # Null
    /\ particlesToEmit = <<>>
    /\ state.player1.emotionTimer > 0

\* C2: in versus mode, a step whose integrated projectile touches the ground
\* raises exactly one score by exactly 1: player 2's when the projectile is
\* left of the centre line, player 1's otherwise; the other score is
\* unchanged and lastScoringPlayer is the player credited
C2_GroundContactScoresOpponent ==
    [][(Unfrozen /\ state.gameMode = "versus" /\ GroundContact)
         => IF Integrated.x < centerX
            THEN /\ state'.player2.score = state.player2.score + 1
                 /\ state'.player1.score = state.player1.score
                 /\ state'.lastScoringPlayer = 2
            ELSE /\ state'.player1.score = state.player1.score + 1
                 /\ state'.player2.score = state.player2.score
                 /\ state'.lastScoringPlayer = 1]_vars

\* the projectile came down left of the centre line and player 2 was credited
C2_Witness ==
    /\ state.gameMode = "versus"
    /\ state.lastScoringPlayer = 2
    /\ state.player2.score = 1
    /\ state.player1.score = 0
    /\ \E i \in 1..Len(particlesToEmit) :
          particlesToEmit[i].type = "ground" /\ particlesToEmit[i].x < centerX

\* C3: in versus mode, the step in which a score reaches winningScore sets
\* winner to that player and leaves the projectile where the ground contact
\* put it; a scoring step in which no score has reached winningScore leaves
\* winner null
C3_WinnerSetWithoutRespawn ==
    [][(Unfrozen /\ state.gameMode = "versus" /\ GroundContact)
         => IF state'.player1.score >= config.winningScore
            THEN state'.winner = 1 /\ state'.takyan = Integrated
            ELSE IF state'.player2.score >= config.winningScore
            THEN state'.winner = 2 /\ state'.takyan = Integrated
            ELSE state'.winner = Null]_vars

\* player 2 has just won and the projectile lies on the ground
C3_Witness ==
    /\ state.winner = 2
    /\ state.player2.score = config.winningScore
    /\ checkGroundCollision(state.takyan, config)
    /\ particlesToEmit # <<>>

\* C4: each player's x stays inside the half (versus) or the court
\* (practice) assigned to that player
C4_PlayersWithinAssignedBounds ==
    IF state.gameMode = "versus"
    THEN /\ state.player1.x >= 0
         /\ state.player1.x <= centerX - state.player1.width
         /\ state.player2.x >= centerX
         /\ state.player2.x <= config.canvasWidth - state.player2.width
    ELSE /\ state.player1.x >= 0
         /\ state.player1.x <= config.canvasWidth - state.player1.width

\* what a step does to the dash fields of a player it processes, told from
\* the player before (p) and after (q) the step and the dash key
DashOutcome(p, q, requested, dt) ==
    LET started == requested /\ p.dashCooldown <= 0 /\ ~p.isDashing
    IN  /\ started =>
             /\ q.dashDuration = Max(0, config.dashDuration - dt)
             /\ q.isDashing = (config.dashDuration - dt > 0)
        /\ ~started =>
             /\ q.dashDuration = IF p.isDashing THEN Max(0, p.dashDuration - dt)
                                 ELSE p.dashDuration
             /\ q.isDashing = (p.isDashing /\ p.dashDuration - dt > 0)
        /\ (requested /\ p.dashCooldown > 0) =>
             /\ ~q.isDashing
             /\ q.dashCooldown = Max(0, p.dashCooldown - dt)
             /\ q.dashCooldown <= p.dashCooldown

\* C5: a dash request starts a dash in that step exactly when the player's
\* dashCooldown <= 0 and isDashing is false at the start of the step; a
\* request made while dashCooldown > 0 leaves isDashing false and the
\* cooldown only decays (player 1 always, player 2 in versus mode)
C5_DashGating ==
    [][Unfrozen =>
         /\ DashOutcome(state.player1, state'.player1, input.player1Dash, deltaTime')
         /\ state.gameMode = "versus" =>
              DashOutcome(state.player2, state'.player2, input.player2Dash,
                          deltaTime')]_vars

\* the dash key, pressed once and held since, was refused by a step that
\* began inside the cooldown
C5_Witness ==
    /\ input.player1Dash
    /\ keyPresses = 1
    /\ ~state.player1.isDashing
    /\ state.player1.dashCooldown > 0
    /\ state.player1.dashCooldown < config.dashCooldownTime - 100

AnimationRule(player) ==
    IF player.emotionTimer > 0 THEN player.lastEmotion
    ELSE IF player.isDashing THEN "Dash"
    ELSE IF player.isKicking THEN "Walk_attack"
    ELSE IF player.x - player.lastX > 10 \/ player.lastX - player.x > 10 THEN "Walk"
    ELSE "Idle2"

\* C6: getPlayerAnimation takes the first rule that matches, in the order
\* emotion (timer > 0, the recorded lastEmotion), Dash, Walk_attack, Walk
\* (|x - lastX| > 0.1), idle; an emotion in progress is never shown as Dash
C6_AnimationPriority ==
    \A player \in {state.player1, state.player2} :
        /\ getPlayerAnimation(player) = AnimationRule(player)
        /\ player.emotionTimer > 0 => getPlayerAnimation(player) \in {"Happy", "Angry"}

\* a player who is dashing while an emotion runs
C6_Witness ==
    /\ state.player1.emotionTimer > 0
    /\ state.player1.isDashing
    /\ getPlayerAnimation(state.player1) = "Happy"

\* the kick fields of a player whose kick was not triggered in this step
KickNotTriggered(p, q, dt) ==
    IF p.isKicking
    THEN IF p.kickAnimationFrame + dt >= p.kickAnimationDuration
         THEN ~q.isKicking /\ q.kickAnimationFrame = 0
         ELSE q.isKicking /\ q.kickAnimationFrame = p.kickAnimationFrame + dt
    ELSE ~q.isKicking /\ q.kickAnimationFrame = p.kickAnimationFrame

BothCanKick ==
    /\ input.player1Kick /\ checkPlayerCollision(state.takyan, state.player1)
    /\ input.player2Kick /\ checkPlayerCollision(state.takyan, state.player2)

\* the projectile kicked by player 1 and then moved by this step
Player1KickIntegrated ==
    LET mult == ResolveMultipliers(state, customMultipliers)
        power == Scaled(mult.ballSpeed,
                        CHARACTER_STATS(state.player1.characterId).powerMultiplier)
        direction == IF input.player1Left THEN -1
                     ELSE IF input.player1Right THEN 1 ELSE 0
        kickedTakyan == [state.takyan EXCEPT
                            !.velocityY = -Scaled(config.kickPower, power),
                            !.velocityX = Scaled(direction * KickHorizontal, power)]
    IN  MoveTakyan(state.takyan, kickedTakyan, config, deltaTime', mult.gravity)

\* C7: at most one kick is applied per step: rallyCount and combo grow by
\* at most 1; when both players hold kick and both overlap the projectile
\* in versus mode only player 1's kick is applied; in practice mode player 2
\* never kicks
C7_OneKickPerStep ==
    [][Unfrozen =>
         /\ state'.rallyCount <= state.rallyCount + 1
         /\ state'.combo <= state.combo + 1
         /\ (state.gameMode = "versus" /\ BothCanKick) =>
              /\ KickNotTriggered(state.player2, state'.player2, deltaTime')
              /\ Integrated = Player1KickIntegrated
              /\ ~GroundContact => /\ state'.takyan = Player1KickIntegrated
                                   /\ state'.rallyCount = state.rallyCount + 1
                                   /\ state'.combo = state.combo + 1
         /\ state.gameMode = "practice" =>
              /\ ~state'.player2.isKicking
              /\ ~(input.player1Kick
                   /\ checkPlayerCollision(state.takyan, state.player1)) =>
                    /\ state'.rallyCount <= state.rallyCount
                    /\ state'.combo <= state.combo]_vars

\* both players held kick over the projectile and player 1's kick was taken
C7_Witness ==
    /\ state.gameMode = "versus"
    /\ input.player1Kick /\ input.player2Kick
    /\ state.player1.isKicking /\ ~state.player2.isKicking
    /\ state.rallyCount = 1
    /\ state.player2.characterId = 2
    /\ \E i \in 1..Len(particlesToEmit) :
          particlesToEmit[i].type = "kick" /\ particlesToEmit[i].color = "player1"

\* the first step of a versus match without custom multipliers (versus play
\* keeps no difficulty: every multiplier is 1, as for medium), the projectile
\* overlapping player 1, who holds kick and right
FirstKickRight ==
    /\ Unfrozen
    /\ frames = 0
    /\ state.gameMode = "versus"
    /\ customMultipliers = Undefined
    /\ state.rallyCount = 0
    /\ state.takyan.velocityX = 0 /\ state.takyan.velocityY = 0
    /\ checkPlayerCollision(state.takyan, state.player1)
    /\ input.player1Kick /\ input.player1Right /\ ~input.player1Left

\* C8 as stated: the step leaves velocityY == -kickPower and velocityX == 3
C8_KickLeavesKickVelocity ==
    [][FirstKickRight =>
         /\ state'.takyan.velocityY = -config.kickPower
         /\ state'.takyan.velocityX = KickHorizontal
         /\ state'.player1.isKicking
         /\ state'.rallyCount = 1]_vars

\* C8 (amended): the kick is followed in the same step by the integration,
\* so the step leaves velocityY == -kickPower + gravity * deltaTime * 60 and
\* velocityX == 3 * 0.99, with player1.isKicking true and rallyCount == 1
C8_KickThenIntegration ==
    [][FirstKickRight =>
         /\ state'.takyan.velocityY =
               -config.kickPower + Scaled(config.gravity, FrameScale(deltaTime'))
         /\ state'.takyan.velocityX = Scaled(KickHorizontal, AirResistanceFactor)
         /\ state'.player1.isKicking
         /\ state'.rallyCount = 1]_vars

\* the state after that first kick, taken with deltaTime = 0.1
C8_Witness ==
    /\ frames = 1
    /\ deltaTime = 100
    /\ state.gameMode = "versus"
    /\ customMultipliers = Undefined
    /\ input.player1Kick /\ input.player1Right /\ ~input.player1Left
    /\ state.player1.isKicking
    /\ state.rallyCount = 1
    /\ state.takyan.velocityX = 297
    /\ state.takyan.velocityY = -1200

KickDirections == {-1, 0, 1}
KickMultipliers == {30, 130}

\* C9: applyKick overwrites the velocity whatever it was (velocityY =
\* -(kickPower * multiplier), velocityX = direction * 3 * multiplier), so a
\* second kick with no integration in between gives exactly the second
\* kick's velocity; position, radius and rotation are unchanged
C9_KickOverwritesVelocity ==
    \A d1 \in KickDirections, d2 \in KickDirections :
      \A m1 \in KickMultipliers, m2 \in KickMultipliers :
        LET first == applyKick(state.takyan, config, d1, m1)
            second == applyKick(first, config, d2, m2)
        IN  /\ first.velocityY = -Scaled(config.kickPower, m1)
            /\ first.velocityX = Scaled(d1 * KickHorizontal, m1)
            /\ second.velocityY = -Scaled(config.kickPower, m2)
            /\ second.velocityX = Scaled(d2 * KickHorizontal, m2)
            /\ second = applyKick(state.takyan, config, d2, m2)
            /\ \A t \in {first, second} :
                  /\ t.x = state.takyan.x /\ t.y = state.takyan.y
                  /\ t.radius = state.takyan.radius
                  /\ t.rotation = state.takyan.rotation

\* a projectile that was kicked twice and is moving on both axes
C9_Witness ==
    /\ state.rallyCount = 2
    /\ state.takyan.velocityX # 0
    /\ state.takyan.velocityY # 0
    /\ state.takyan.rotation # 0

PracticeStep == Unfrozen /\ state.gameMode = "practice"

Player1Kicks ==
    input.player1Kick /\ checkPlayerCollision(state.takyan, state.player1)

\* C10 as stated: every kick leaves currentStreak one higher, every ground
\* contact leaves personalBest and totalKicks as they were before the step
C10_StreakPerStep ==
    [][PracticeStep =>
         /\ Player1Kicks =>
              /\ state'.practiceState.currentStreak =
                    state.practiceState.currentStreak + 1
              /\ state'.practiceState.totalKicks =
                    state.practiceState.totalKicks + 1
              /\ state'.practiceState.personalBest =
                    Max(state.practiceState.personalBest,
                        state.practiceState.currentStreak + 1)
         /\ GroundContact =>
              /\ state'.practiceState.currentStreak = 0
              /\ state'.practiceState.personalBest =
                    state.practiceState.personalBest
              /\ state'.practiceState.totalKicks =
                    state.practiceState.totalKicks]_vars

\* C10 (amended): in practice mode a kick adds 1 to totalKicks and sets
\* personalBest to max(personalBest, currentStreak + 1); currentStreak is
\* one higher after a step with a kick and no ground contact and 0 after a
\* step with a ground contact, kick or not; a ground contact itself changes
\* neither personalBest nor totalKicks
C10_StreakBookkeeping ==
    [][PracticeStep =>
         /\ state'.practiceState.currentStreak =
               IF GroundContact THEN 0
               ELSE IF Player1Kicks THEN state.practiceState.currentStreak + 1
               ELSE state.practiceState.currentStreak
         /\ state'.practiceState.totalKicks =
               IF Player1Kicks THEN state.practiceState.totalKicks + 1
               ELSE state.practiceState.totalKicks
         /\ state'.practiceState.personalBest =
               IF Player1Kicks
               THEN Max(state.practiceState.personalBest,
                        state.practiceState.currentStreak + 1)
               ELSE state.practiceState.personalBest]_vars

\* two kicks, the second in a step that also touched the ground
C10_Witness ==
    /\ state.gameMode = "practice"
    /\ state.practiceState.currentStreak = 0
    /\ state.practiceState.totalKicks = 2
    /\ state.practiceState.personalBest = 2
    /\ \E i \in 1..Len(particlesToEmit) : particlesToEmit[i].type = "kick"
    /\ \E i \in 1..Len(particlesToEmit) : particlesToEmit[i].type = "ground"

\* C11: on ground contact the projectile is respawned at x = canvasWidth/2,
\* y = 100: in practice mode with the pop-up velocity (velocityY = -10,
\* velocityX within [-3, 3]), in versus mode when no winner results with zero
\* velocity on both axes
C11_RespawnOnGroundContact ==
    [][(Unfrozen /\ GroundContact) =>
         IF state.gameMode = "practice"
         THEN /\ state'.takyan.x = centerX
              /\ state'.takyan.y = ServeY
              /\ state'.takyan.velocityY = PopUpVelocityY
              /\ state'.takyan.velocityX >= -KickHorizontal
              /\ state'.takyan.velocityX <= KickHorizontal
         ELSE state'.winner = Null =>
                /\ state'.takyan.x = centerX
                /\ state'.takyan.y = ServeY
                /\ state'.takyan.velocityX = 0
                /\ state'.takyan.velocityY = 0]_vars

\* a practice drop after a kick to the left: the projectile is back at the
\* serve position with the pop-up velocity
C11_Witness ==
    /\ state.gameMode = "practice"
    /\ frames >= 1
    /\ state.takyan.x = centerX /\ state.takyan.y = ServeY
    /\ state.takyan.velocityY = PopUpVelocityY
    /\ state.takyan.velocityX # 0
    /\ \E i \in 1..Len(particlesToEmit) :
          particlesToEmit[i].type = "ground" /\ particlesToEmit[i].x # centerX

\* a versus step in which a point is scored
PointScored == Unfrozen /\ state.gameMode = "versus" /\ GroundContact

\* the player credited with the point of this step
Scorer == IF Integrated.x < centerX THEN 2 ELSE 1

\* C12 as stated: the step that scores leaves both emotion timers at 800 ms
C12_EmotionTimerFull ==
    [][PointScored =>
         /\ state'.player1.lastEmotion = IF Scorer = 1 THEN "Happy" ELSE "Angry"
         /\ state'.player2.lastEmotion = IF Scorer = 2 THEN "Happy" ELSE "Angry"
         /\ state'.player1.emotionTimer = EmotionDuration
         /\ state'.player2.emotionTimer = EmotionDuration]_vars

\* C12 (amended): in a versus step where a point is scored the scoring
\* player's lastEmotion is Happy and the opponent's Angry, whatever emotion
\* was running, and both emotionTimers are set to 800 ms and decayed by this
\* step's elapsed milliseconds: the step leaves them at 800 - deltaTime * 1000
C12_EmotionOnPoint ==
    [][PointScored =>
         /\ state'.player1.lastEmotion = IF Scorer = 1 THEN "Happy" ELSE "Angry"
         /\ state'.player2.lastEmotion = IF Scorer = 2 THEN "Happy" ELSE "Angry"
         /\ state'.player1.emotionTimer = EmotionDuration - deltaTime'
         /\ state'.player2.emotionTimer = EmotionDuration - deltaTime'
         /\ state'.player1.emotionTimer > 0]_vars

\* player 1 scores while still Angry about player 2's point
C12_Witness ==
    /\ state.gameMode = "versus"
    /\ state.player1.score = 1 /\ state.player2.score = 1
    /\ state.lastScoringPlayer = 1
    /\ state.player1.lastEmotion = "Happy" /\ state.player2.lastEmotion = "Angry"
    /\ deltaTime > 0
    /\ state.player1.emotionTimer = EmotionDuration - deltaTime
    /\ state.player2.emotionTimer = EmotionDuration - deltaTime

Difficulties == {"easy", "medium", "hard"}

\* the multipliers a step has to use, read off the match
ExpectedMultipliers ==
    IF customMultipliers # Undefined /\ customMultipliers.isCustom
    THEN [ ballSpeed   |-> customMultipliers.ballSpeed,
           gravity     |-> customMultipliers.gravity,
           playerSpeed |-> customMultipliers.playerSpeed ]
    ELSE IF state.gameMode = "versus"
    THEN [ ballSpeed |-> 100, gravity |-> 100, playerSpeed |-> 100 ]
    ELSE IF state.practiceState.difficulty = "easy"
    THEN [ ballSpeed |-> 40, gravity |-> 50, playerSpeed |-> 80 ]
    ELSE IF state.practiceState.difficulty = "hard"
    THEN [ ballSpeed |-> 150, gravity |-> 130, playerSpeed |-> 120 ]
    ELSE [ ballSpeed |-> 100, gravity |-> 100, playerSpeed |-> 100 ]

\* a versus state that carries a practice record with difficulty d
WithStoredDifficulty(d) ==
    [state EXCEPT !.practiceState = [ currentStreak |-> 0, personalBest |-> 0,
                                      totalKicks |-> 0, lastDropTime |-> 0,
                                      difficulty |-> d ]]

C14_HostPassesCappedDeltaTime ==
    [][(frames' = frames + 1 /\ ~state.isPaused) =>
         /\ deltaTime' = hostDeltaTime'
         /\ deltaTime' >= 0
         /\ deltaTime' <= MaxDeltaTime]_vars

\* C15: an out-of-range character identifier or an unknown difficulty
\* identifier never makes a frame fail: the match has characters of the
\* game and every updateGameState step completes and returns a state
C15_UnknownIdentifiersFallBack ==
    /\ frameError = "none"
    /\ state.player1.characterId \in CharacterIds
    /\ state.player2.characterId \in CharacterIds

\* C16: each player's score is a non-negative integer that never decreases,
\* and a single step raises the sum of the two scores by at most 1
C16_ScoresMonotonic ==
    [][/\ state'.player1.score \in Nat
       /\ state'.player2.score \in Nat
       /\ state'.player1.score >= state.player1.score
       /\ state'.player2.score >= state.player2.score
       /\ state'.player1.score + state'.player2.score
            <= state.player1.score + state.player2.score + 1]_vars

\* both players have scored, player 2 twice
C16_Witness ==
    /\ state.player1.score = 1
    /\ state.player2.score = 2
    /\ state.winner = 2

\* the dash key starts a dash for player p in this step
DashStarts(p, requested) == requested /\ p.dashCooldown <= 0 /\ ~p.isDashing

\* player p dashes in this step (a dash running or started) for a remaining
\* duration that the step's elapsed time uses up
DashEnds(p, requested, dt) ==
    LET duration == IF DashStarts(p, requested) THEN config.dashDuration
                    ELSE p.dashDuration
    IN  (p.isDashing \/ DashStarts(p, requested)) /\ duration - dt <= 0

\* player p dashes in this step and is still dashing after it
DashContinues(p, requested, dt) ==
    LET duration == IF DashStarts(p, requested) THEN config.dashDuration
                    ELSE p.dashDuration
    IN  (p.isDashing \/ DashStarts(p, requested)) /\ duration - dt > 0

\* C17 as stated: the step that ends a dash leaves the full cooldown
C17_FullCooldownAtDashEnd ==
    [][Unfrozen =>
         /\ DashEnds(state.player1, input.player1Dash, deltaTime') =>
              /\ ~state'.player1.isDashing
              /\ state'.player1.dashCooldown = config.dashCooldownTime
         /\ (state.gameMode = "versus"
             /\ DashEnds(state.player2, input.player2Dash, deltaTime')) =>
              /\ ~state'.player2.isDashing
              /\ state'.player2.dashCooldown = config.dashCooldownTime]_vars

\* what the step that ends a dash leaves, and what a step leaves in which
\* the dash goes on
DashEndOutcome(p, q, requested, dt) ==
    /\ DashEnds(p, requested, dt) =>
         /\ ~q.isDashing
         /\ q.dashDuration = 0
         /\ q.dashCooldown = Max(0, config.dashCooldownTime - dt)
    /\ DashContinues(p, requested, dt) =>
         /\ q.isDashing
         /\ q.dashCooldown = 0

\* C17 (amended): in the step in which a dashing player's dashDuration
\* decays to 0, isDashing becomes false and dashCooldown is set to
\* config.dashCooldownTime and decremented by that same step's elapsed
\* milliseconds, so the resulting state has dashCooldown ==
\* dashCooldownTime - deltaTime * 1000; while the dash goes on the cooldown
\* stays 0
C17_CooldownStartsAtDashEnd ==
    [][Unfrozen =>
         /\ DashEndOutcome(state.player1, state'.player1, input.player1Dash,
                           deltaTime')
         /\ state.gameMode = "versus" =>
              DashEndOutcome(state.player2, state'.player2, input.player2Dash,
                             deltaTime')]_vars

\* a dash of player 1 that ran for a step and ended in the next
C17_Witness ==
    /\ input.player1Dash
    /\ frames >= 2
    /\ deltaTime = 50
    /\ ~state.player1.isDashing
    /\ state.player1.dashDuration = 0
    /\ state.player1.dashCooldown = config.dashCooldownTime - deltaTime

\* a dash in progress only runs down, whatever the dash key does
DashRunsDown(p, q, dt) ==
    p.isDashing =>
        /\ q.dashDuration = Max(0, p.dashDuration - dt)
        /\ q.dashDuration <= p.dashDuration
        /\ dt > 0 => q.dashDuration < config.dashDuration
        /\ q.isDashing = (q.dashDuration > 0)

\* C18: while the dash key stays held a dash that has started is not
\* restarted: no step that begins with isDashing true sets dashDuration back
\* to config.dashDuration; it only decreases until the dash ends
C18_DashNotRestarted ==
    [][Unfrozen =>
         /\ DashRunsDown(state.player1, state'.player1, deltaTime')
         /\ DashRunsDown(state.player2, state'.player2, deltaTime')]_vars

\* the dash key held through the step that started the dash and the next
C18_Witness ==
    /\ input.player1Dash
    /\ keyPresses = 1
    /\ frames = 2
    /\ deltaTime = 50
    /\ state.player1.isDashing
    /\ state.player1.dashDuration = config.dashDuration - 50

\* the emotion timer only runs down: by the elapsed time, stopping at 0, and
\* lastEmotion is cleared when it stops and lasts until then
EmotionRunsDown(p, q, dt) ==
    p.emotionTimer > 0 =>
        /\ q.emotionTimer = Max(0, p.emotionTimer - dt)
        /\ q.lastEmotion = IF q.emotionTimer = 0 THEN "null" ELSE p.lastEmotion
        /\ p.lastEmotion # "null"

\* the emotion of a player ends unless the match stops first
EmotionEnds(p) ==
    [](state[p].emotionTimer > 0 =>
         <>(\/ state[p].emotionTimer = 0 /\ state[p].lastEmotion = "null"
            \/ IsFrozen(state)
            \/ frames = MaxRallyFrames))

KickAnimationOutcome(p, q, kicked, dt) ==
    IF kicked
    THEN IF dt >= p.kickAnimationDuration
         THEN ~q.isKicking /\ q.kickAnimationFrame = 0
         ELSE q.isKicking /\ q.kickAnimationFrame = dt
    ELSE KickNotTriggered(p, q, dt)

\* the count of a running animation is below the duration, and 0 otherwise
KickAnimationBounded(p) ==
    /\ p.kickAnimationDuration = KickAnimationDuration
    /\ IF p.isKicking
       THEN p.kickAnimationFrame >= 0
            /\ p.kickAnimationFrame < p.kickAnimationDuration
       ELSE p.kickAnimationFrame = 0

InitialPlayer2 ==
    NewPlayer(state.player2.characterId,
              (config.canvasWidth \div 4) * 3 - PlayerWidth \div 2, config)

\* C21: in practice mode player 2 is never updated: whatever the input,
\* player 2's position, facing, rotation, score, kick, dash and emotion
\* fields keep their initial values, both scores stay 0 and winner stays null
C21_PracticePlayer2Untouched ==
    state.gameMode = "practice" =>
        /\ state.player2 = InitialPlayer2
        /\ state.player1.score = 0
        /\ state.player2.score = 0
        /\ state.winner = Null

\* player 2's keys held through the steps of a practice session with a drop
C21_Witness ==
    /\ state.gameMode = "practice"
    /\ frames = MaxFrames
    /\ input.player2Dash /\ input.player2Right
    /\ deltaTime = 100
    /\ state.practiceState.lastDropTime > 0
    /\ frameError = "none"

\* C22: after every unfrozen step each updated player's lastX is that
\* player's x in the state the step started from, the position before this
\* step's movement and clamping, not the new x (player 1 always, player 2 in
\* versus mode)
C22_LastXIsPreviousX ==
    [][Unfrozen =>
         /\ state'.player1.lastX = state.player1.x
         /\ state.gameMode = "versus" =>
                state'.player2.lastX = state.player2.x]_vars

\* both players have just moved away from where the step found them
C22_Witness ==
    /\ state.gameMode = "versus"
    /\ frames >= 2
    /\ state.winner = Null /\ ~state.isPaused
    /\ state.player1.lastX # state.player1.x
    /\ state.player2.lastX # state.player2.x
    /\ state.player1.lastX # NewPlayer(1, config.canvasWidth \div 4 - PlayerWidth \div 2, config).x

TimersNonNegative(p) ==
    /\ p.dashCooldown >= 0
    /\ p.dashDuration >= 0
    /\ p.emotionTimer >= 0
    /\ p.kickAnimationFrame >= 0

\* C23: in every state reachable from initializeGameState by steps with
\* deltaTime >= 0 all per-player timers are non-negative: dashCooldown,
\* dashDuration, emotionTimer and kickAnimationFrame, for both players
C23_TimersNonNegative ==
    TimersNonNegative(state.player1) /\ TimersNonNegative(state.player2)

\* a dash and its cooldown have run out in frames of up to 100 ms while an
\* emotion is still running
C23_Witness ==
    /\ frames = 4
    /\ deltaTime = 100
    /\ state.player1.dashCooldown = 0
    /\ ~state.player1.isDashing
    /\ state.player1.x # state.player1.lastX
    /\ input.player1Dash
    /\ keyPresses = 2
    /\ state.player1.emotionTimer > 0

\* what a step does to a counter of kicks since the last ground contact
KicksSinceGround(before, after) ==
    IF GroundContact THEN after = 0
    ELSE IF KickingPlayer(state, input) # Null THEN after = before + 1
    ELSE after = before

\* C24: combo and rallyCount are the same counter: combo = rallyCount in
\* every reachable state, both grow by 1 together on a successful kick and
\* both are reset to 0 in any step with ground contact, so each is the number
\* of kicks since the last ground contact
C24_ComboIsRallyCount ==
    /\ [](state.combo = state.rallyCount /\ state.combo >= 0)
    /\ [][Unfrozen =>
            /\ KicksSinceGround(state.combo, state'.combo)
            /\ KicksSinceGround(state.rallyCount, state'.rallyCount)]_vars
    /\ [][~Unfrozen =>
            state'.combo = state.combo /\ state'.rallyCount = state.rallyCount]_vars

\* a kick counted again after a ground contact took the count back to 0
C24_Witness ==
    /\ state.gameMode = "versus"
    /\ state.player1.score + state.player2.score = 1
    /\ state.combo = 1 /\ state.rallyCount = 1
    /\ state.winner = Null

\* the winner is the player whose score has reached winningScore
WinnerMatchesScores ==
    /\ state.winner \in {Null, 1, 2}
    /\ state.winner = 1 => state.player1.score >= config.winningScore
    /\ state.winner = 2 => state.player2.score >= config.winningScore
    /\ state.winner = Null =>
          /\ state.player1.score < config.winningScore
          /\ state.player2.score < config.winningScore

\* C25: in versus mode with winningScore >= 1 winner is non-null exactly when
\* some player's score is >= winningScore (winner 1 implies player 1's score
\* is, winner 2 implies player 2's score is, and while winner is null both
\* scores are below it), and once winner is non-null it and both scores never
\* change again
C25_WinnerIffScoreReached ==
    /\ [](state.gameMode = "versus" /\ config.winningScore >= 1
            => WinnerMatchesScores)
    /\ [][state.gameMode = "versus" /\ state.winner # Null =>
            /\ state'.winner = state.winner
            /\ state'.player1.score = state.player1.score
            /\ state'.player2.score = state.player2.score]_vars

\* player 2 has won and the match has been stepped once more
C25_Witness ==
    /\ state.gameMode = "versus"
    /\ state.winner = 2
    /\ state.player2.score = config.winningScore
    /\ particlesToEmit = <<>>
    /\ frames >= 3

DashConsistent(p) ==
    /\ p.isDashing = (p.dashDuration > 0)
    /\ p.isDashing => p.dashCooldown = 0

\* C26: in the initial state and in every state a step produces, for each
\* player isDashing is true exactly when dashDuration > 0, and isDashing
\* implies dashCooldown = 0: a dash and its cooldown are never active at the
\* same time
C26_DashExcludesCooldown ==
    DashConsistent(state.player1) /\ DashConsistent(state.player2)

\* one player is dashing while the other waits for its cooldown
C26_Witness ==
    /\ state.player1.isDashing /\ state.player1.dashDuration = 50
    /\ ~state.player2.isDashing /\ state.player2.dashCooldown > 0

EmotionRecorded(p) ==
    /\ (p.emotionTimer > 0) = (p.lastEmotion # "null")
    /\ p.lastEmotion \in {"null", "Happy", "Angry"}

\* C27: in every reachable state, for each player emotionTimer > 0 holds
\* exactly when lastEmotion is non-null, so the emotion rule of the animation
\* selector never sees a positive timer without a recorded emotion
C27_EmotionTimerIffEmotion ==
    EmotionRecorded(state.player1) /\ EmotionRecorded(state.player2)

\* the emotions of the first point have run out and the rally goes on
C27_Witness ==
    /\ state.lastScoringPlayer = 1
    /\ state.player1.score = 1 /\ state.player2.score = 0
    /\ state.winner = Null
    /\ state.player1.emotionTimer = 0 /\ state.player1.lastEmotion = "null"
    /\ state.player2.emotionTimer = 0 /\ state.player2.lastEmotion = "null"
    /\ deltaTime = 50

\* C28: with groundLevel > 100 + radius, in every reachable state in which
\* winner is null the projectile is above the ground (takyan.y + radius <
\* groundLevel): a ground contact that does not end the match respawns the
\* projectile at y = 100 in the same step, so no step starts in contact with
\* the ground and no ground contact is counted twice
C28_ProjectileAboveGround ==
    config.groundLevel > ServeY + config.takyanRadius /\ state.winner = Null =>
        /\ state.takyan.y + state.takyan.radius < config.groundLevel
        /\ state.takyan.radius = config.takyanRadius

\* the second serve after a point, on its way down
C28_Witness ==
    /\ state.gameMode = "versus"
    /\ state.winner = Null
    /\ state.player1.score + state.player2.score = 1
    /\ state.takyan.y > ServeY
    /\ state.takyan.velocityY > 0
    /\ state.takyan.x = centerX

StreakOrdered ==
    /\ 0 <= state.practiceState.currentStreak
    /\ state.practiceState.currentStreak <= state.practiceState.personalBest
    /\ state.practiceState.personalBest <= state.practiceState.totalKicks
    /\ state.practiceState.currentStreak = state.rallyCount

\* C29: in practice mode 0 <= currentStreak <= personalBest <= totalKicks in
\* every reachable state, personalBest and totalKicks never decrease across
\* steps, and currentStreak = rallyCount
C29_PracticeStatistics ==
    /\ [](state.gameMode = "practice" => StreakOrdered)
    /\ [][state.gameMode = "practice" =>
            /\ state'.practiceState.personalBest >= state.practiceState.personalBest
            /\ state'.practiceState.totalKicks >= state.practiceState.totalKicks]_vars

\* a new streak has begun below the personal best of an earlier one
C29_Witness ==
    /\ state.gameMode = "practice"
    /\ state.practiceState.currentStreak = 1
    /\ state.practiceState.personalBest = 2
    /\ state.practiceState.totalKicks = 3

\* no step of the match finds a player in a position to kick with its kick
\* key down, and the match is never paused
NobodyKicks == IsFrozen(state) \/ KickingPlayer(state, input) = Null

\* C30: in versus mode with positive gravity, if no player ever kicks and
\* every step has deltaTime > 0 with the match not paused, a winner is
\* eventually set and it is player 1: the untouched serve falls straight down
\* at x = canvasWidth / 2, which determineScoringSide counts as player 2's
\* side, so every untouched serve credits player 1
C30_UntouchedServesCreditPlayer1 ==
    [](NobodyKicks /\ ~state.isPaused) =>
        /\ <>(state.winner = 1 /\ state.player1.score = config.winningScore)
        /\ [](state.winner # 2 /\ state.player2.score = 0)
        /\ [](state.takyan.x = centerX /\ state.takyan.velocityX = 0)

\* player 1 has won without a kick while both players held their kick keys
C30_Witness ==
    /\ state.winner = 1
    /\ state.player1.score = config.winningScore
    /\ state.player2.score = 0
    /\ state.rallyCount = 0
    /\ state.takyan.x = centerX /\ state.takyan.velocityX = 0
    /\ input.player1Kick /\ input.player2Kick
    /\ ~state.player1.isKicking /\ ~state.player2.isKicking

====
